---------------------------- MODULE Spec2Model ----------------------------
(***************************************************************************)
(* HA-Calendar: the path from the events fetched from the hub to the rows  *)
(* drawn by the week, two-week and four-day renderers, and the all-day     *)
(* lane packer (BaseRenderer._get_all_day_span_lanes) those rows call.      *)
(*                                                                         *)
(* Time.  A calendar date is an integer day number, day 0 being a Monday.  *)
(* A datetime is an integer number of hours since 00:00 of day 0, in the   *)
(* one local timezone, so isoformat() is injective on it and a datetime    *)
(* stands for its own ISO string in an event key.                          *)
(*                                                                         *)
(* Specifications.  Spec: a run of main() from the fetched events to the   *)
(* drawn rows.  PlacerSpec: direct calls of the three day placers and of   *)
(* the lane packer.  DataSpec: direct calls of group_events_by_day and     *)
(* limit_events_per_day.  FetchSpec: get_all_calendar_events with its      *)
(* thread pool and retries.  ProcSpec: the main.py and show_pic.py         *)
(* processes around the display lock, and the POST /refresh answer.        *)
(***************************************************************************)
EXTENDS Integers, Sequences, FiniteSets

VARIABLES
    pc,             \* position of the run: fetched, grouped, packed, week2, drawn
    view,           \* current_view of main()
    today,          \* date.today()
    all_events,     \* the fetched raw events, calendar after calendar
    events_by_day,  \* date -> DayEvents, as handed to renderer.render
    row_dates,      \* dates argument of the last lane packer call
    max_lanes,      \* max_lanes argument of the last lane packer call
    spans,          \* the packer's local list spans, after its sort
    lanes,          \* returned lanes: a sequence of sequences of spans
    overflow,       \* returned overflow count
    span_keys,      \* returned set of event keys
    bars,           \* lane bars drawn by _draw_all_day_spans for the row
    cells,          \* date -> the events the day placer of that cell loops over
    lane_more,      \* the lane overflow count the row drawer has put on the canvas
    day_events,     \* day_events.events argument of the last day placer call
    region,         \* its y and height arguments
    next_event,     \* index in events_to_show of the event its loop handles next
    blocks,         \* the blocks it has drawn, in drawing order
    skipped,        \* the blocks it has given up (continue, break), in order
    current_y,      \* current_y of the two-week placer
    more_shown,     \* the number the placer has drawn as "+N more", 0 for none
    raised,         \* the exception a direct call has raised, "none" for none
    cut_by_limit,   \* the day's events limit_events_per_day cut before the call
    arg_events,     \* events argument of a direct group_events_by_day call
    arg_start_date, \* its start_date argument
    arg_end_date,   \* its end_date argument
    day_events_dict, \* its result: date -> DayEvents
    arg_max_events, \* max_events argument of a limit_events_per_day call
    limited_events, \* its result: date -> DayEvents
    calendars,      \* config['calendars']: the configured entity ids, in order
    futures,        \* entity id -> the state of its get_calendar_events call
    lock_holder,    \* the starter whose main.py holds the flock, "none" for none
    procs,          \* starter -> the script it has started and where that is
    response        \* status the POST /refresh handler has sent, 0 for none yet

placer_vars == <<day_events, region, next_event, blocks, skipped, current_y,
                 more_shown, raised, cut_by_limit>>

data_vars == <<arg_events, arg_start_date, arg_end_date, day_events_dict,
               arg_max_events, limited_events>>

\* The variables of the calls and processes outside the rendering run.
fetch_vars == <<calendars, futures>>

proc_vars == <<lock_holder, procs, response>>

ext_vars == <<data_vars, fetch_vars, proc_vars>>

vars == <<pc, view, today, all_events, events_by_day, row_dates, max_lanes,
          spans, lanes, overflow, span_keys, bars, cells, lane_more,
          day_events, region, next_event, blocks, skipped, current_y,
          more_shown, raised,
          ext_vars>>

----------------------------------------------------------------------------
(* Bounds and input sets                                                   *)

\* Largest number of raw events the hub returns over all calendars.
MaxEvents == 4

HoursPerDay == 24

Views == {"week", "two_week", "four_day"}

\* date.today() of the run: a Monday and a Saturday.
Todays == {7, 12}

\* Calendars in the configuration and event titles, each in ascending
\* string order (Python compares titles as strings).
Calendars == <<"cal_a", "cal_b">>
Titles == <<"a", "b">>

\* Start days relative to today, and lengths in days, of the multi-day
\* all-day events.
StartOffsets == {-1, 0, 1}
DayLens == {2, 4}

Min(a, b) == IF a < b THEN a ELSE b
Max(a, b) == IF a > b THEN a ELSE b

\* Raw events of the hub's answer.  fmt "date" carries dates (an all-day
\* event, end exclusive); fmt "dateTime" carries datetimes.  The second
\* calendar and the second title occur on a few shapes only: enough to give
\* equal and unequal keys on equal spans.
RawDateEvents(t) ==
    { [entity_id |-> Calendars[1], summary |-> Titles[1], fmt |-> "date",
       start |-> t + o, end |-> t + o + n] : o \in StartOffsets, n \in DayLens }
    \cup
    { [entity_id |-> Calendars[1], summary |-> Titles[2], fmt |-> "date",
       start |-> t, end |-> t + n] : n \in DayLens }
    \cup
    { [entity_id |-> Calendars[2], summary |-> Titles[1], fmt |-> "date",
       start |-> t, end |-> t + n] : n \in {1, 2} }

\* A timed event over three dates, and a midnight-to-midnight dateTime event
\* of two days.
RawTimedEvents(t) ==
    { [entity_id |-> Calendars[1], summary |-> Titles[2], fmt |-> "dateTime",
       start |-> t * HoursPerDay + 9, end |-> (t + 2) * HoursPerDay + 10],
      [entity_id |-> Calendars[2], summary |-> Titles[2], fmt |-> "dateTime",
       start |-> t * HoursPerDay, end |-> (t + 2) * HoursPerDay] }

RawPool(t) == RawDateEvents(t) \cup RawTimedEvents(t)

TitleRank(s) == CHOOSE i \in 1..Len(Titles) : Titles[i] = s

\* The hub's answer: every calendar's list in one sequence, the lists in the
\* order the fetches completed; each list in (start, summary) order and
\* without a repeated event.
RawStart(r) == IF r.fmt = "date" THEN r.start * HoursPerDay ELSE r.start

FetchedLists(t) ==
    { s \in UNION { [1..n -> RawPool(t)] : n \in 0..MaxEvents } :
        \A i \in 1..Len(s) : \A j \in 1..Len(s) :
            i < j =>
              /\ s[i] # s[j]
              /\ (s[i].entity_id = s[j].entity_id =>
                    \A k \in i..j : s[k].entity_id = s[i].entity_id)
              /\ (s[i].entity_id = s[j].entity_id =>
                    \/ RawStart(s[i]) < RawStart(s[j])
                    \/ /\ RawStart(s[i]) = RawStart(s[j])
                       /\ TitleRank(s[i].summary) <= TitleRank(s[j].summary)) }

----------------------------------------------------------------------------
(* Helpers                                                                 *)

\* list.sort(key=...): the stable sort of s, where lt[i, j] says that the
\* key of s[i] is strictly below the key of s[j].
StableSort(s, lt) ==
    LET n == Len(s)
        pos(i) == Cardinality({ j \in 1..n :
                      lt[j, i] \/ (~lt[i, j] /\ j < i) }) + 1
    IN  [k \in 1..n |-> s[CHOOSE i \in 1..n : pos(i) = k]]

RECURSIVE Concat(_)
Concat(ss) == IF ss = <<>> THEN <<>> ELSE Head(ss) \o Concat(Tail(ss))

\* datetime.date()
Date(ts) == ts \div HoursPerDay

\* datetime.time() == time(0, 0, 0)
AtMidnight(ts) == ts % HoursPerDay = 0

----------------------------------------------------------------------------
(* calendar_data.py                                                        *)

ParseEvent(r) ==
    IF r.fmt = "date"
    THEN [calendar_id |-> r.entity_id, title |-> r.summary,
          start |-> r.start * HoursPerDay, end |-> r.end * HoursPerDay,
          all_day |-> TRUE]
    ELSE [calendar_id |-> r.entity_id, title |-> r.summary,
          start |-> r.start, end |-> r.end,
          all_day |-> /\ AtMidnight(r.start)
                      /\ AtMidnight(r.end)
                      /\ (r.end - r.start) \div HoursPerDay >= 1]

ParsedBefore(e, f) ==
    \/ e.start < f.start
    \/ e.start = f.start /\ TitleRank(e.title) < TitleRank(f.title)

ParseAllEvents(raw) ==
    LET events == [i \in 1..Len(raw) |-> ParseEvent(raw[i])]
    IN  StableSort(events, [i \in 1..Len(raw), j \in 1..Len(raw) |->
                               ParsedBefore(events[i], events[j])])

DayBefore_StartOnly(e, f) == e.start < f.start

\* False sorts before True: all-day events first, then by start.
DayBefore(e, f) ==
    \/ e.all_day /\ ~f.all_day
    \/ e.all_day = f.all_day /\ e.start < f.start

GroupEventsByDay(events, start_date, end_date) ==
    LET OnDay(d) ==
            LET covers(e) == Date(e.start) <= d /\ d < Date(e.end)
            IN  SelectSeq(events, covers)
        Sorted(es) ==
            StableSort(es, [i \in 1..Len(es), j \in 1..Len(es) |->
                               DayBefore(es[i], es[j])])
        days == { d \in start_date..(end_date - 1) : OnDay(d) # <<>> }
    IN  [d \in days |->
            [date |-> d, events |-> Sorted(OnDay(d)), overflow_count |-> -1]]

LimitEventsPerDay_KeepsLast(by_day, max_events) ==
    [d \in DOMAIN by_day |->
        IF Len(by_day[d].events) > max_events
        THEN [date |-> d,
              events |-> SubSeq(by_day[d].events,
                                Len(by_day[d].events) - max_events + 1,
                                Len(by_day[d].events)),
              overflow_count |-> Len(by_day[d].events) - max_events]
        ELSE [by_day[d] EXCEPT !.overflow_count = 0]]

LimitEventsPerDay(by_day, max_events) ==
    [d \in DOMAIN by_day |->
        IF Len(by_day[d].events) > max_events
        THEN [date |-> d, events |-> SubSeq(by_day[d].events, 1, max_events),
              overflow_count |-> Len(by_day[d].events) - max_events]
        ELSE [by_day[d] EXCEPT !.overflow_count = 0]]

\* max_per_day = 0 stands for None: no limit.
GetEventsForRange(events, t, days_ahead, max_per_day) ==
    LET grouped == GroupEventsByDay(events, t, t + days_ahead)
    IN  IF max_per_day # 0 THEN LimitEventsPerDay(grouped, max_per_day) ELSE grouped

----------------------------------------------------------------------------
(* renderer/base_renderer.py: the lane packer                              *)

\* _event_key: (calendar id, title, ISO start, ISO end)
EventKey(event) == <<event.calendar_id, event.title, event.start, event.end>>

\* event.end.date() - timedelta(days=1)
EndInclusive(event) == Date(event.end) - 1

\* The three tests an event passes to become a span event (lines 491-499).
IsAllDay(event) == event.all_day

\* Mutant: the width test lets an event of one day through.
IsMultiDay_OneDayPasses(event) == ~(EndInclusive(event) < Date(event.start))

IsMultiDay(event) == ~(EndInclusive(event) <= Date(event.start))

MeetsRow(event, row_start, row_end) ==
    ~(EndInclusive(event) < row_start \/ Date(event.start) > row_end)

\* Mutant: a list in place of the dict, so nothing is deduplicated.
DictOf_NoDedup(q) == q

\* span_events[key] = event: a dict keeps a key at its first position and
\* takes the newest value.
RECURSIVE DictOf(_)
DictOf(q) ==
    IF q = <<>> THEN <<>>
    ELSE LET d == DictOf(SubSeq(q, 1, Len(q) - 1))
             e == q[Len(q)]
         IN  IF \E i \in 1..Len(d) : EventKey(d[i]) = EventKey(e)
             THEN [i \in 1..Len(d) |-> IF EventKey(d[i]) = EventKey(e) THEN e ELSE d[i]]
             ELSE Append(d, e)

\* events_by_day.get(day): the day's events, none when the day is missing.
DayList(by_day, day) == IF day \in DOMAIN by_day THEN by_day[day].events ELSE <<>>

\* The loop over the row's days and their events (lines 485-501).
SpanEvents(dates, by_day) ==
    LET row_start == dates[1]
        row_end == dates[Len(dates)]
        scanned == Concat([i \in 1..Len(dates) |-> DayList(by_day, dates[i])])
        passes(e) == IsAllDay(e) /\ IsMultiDay(e) /\ MeetsRow(e, row_start, row_end)
    IN  DictOf(SelectSeq(scanned, passes))

\* dates.index(d): the zero-based position of the first d.
IndexOf(dates, d) ==
    (CHOOSE i \in 1..Len(dates) : dates[i] = d /\ \A j \in 1..(i - 1) : dates[j] # d) - 1

\* Mutant: the exclusive end date is taken as the last day.
SpanOf_ExclusiveEnd(dates, event) ==
    LET span_start == Max(Date(event.start), dates[1])
        span_end == Min(Date(event.end), dates[Len(dates)])
    IN  [start_idx |-> IndexOf(dates, span_start),
         end_idx |-> IndexOf(dates, span_end),
         event |-> event]

\* The span of one event: clipped to the row, as indices (lines 505-511).
SpanOf(dates, event) ==
    LET span_start == Max(Date(event.start), dates[1])
        span_end == Min(EndInclusive(event), dates[Len(dates)])
    IN  [start_idx |-> IndexOf(dates, span_start),
         end_idx |-> IndexOf(dates, span_end),
         event |-> event]

\* Mutant: wider spans first.
SpanBefore_WideFirst(a, b) ==
    \/ a.start_idx < b.start_idx
    \/ /\ a.start_idx = b.start_idx
       /\ (a.end_idx - a.start_idx) > (b.end_idx - b.start_idx)
    \/ /\ a.start_idx = b.start_idx
       /\ (a.end_idx - a.start_idx) = (b.end_idx - b.start_idx)
       /\ TitleRank(a.event.title) < TitleRank(b.event.title)

\* The sort key (start index, width, title), line 513.
SpanBefore(a, b) ==
    \/ a.start_idx < b.start_idx
    \/ /\ a.start_idx = b.start_idx
       /\ (a.end_idx - a.start_idx) < (b.end_idx - b.start_idx)
    \/ /\ a.start_idx = b.start_idx
       /\ (a.end_idx - a.start_idx) = (b.end_idx - b.start_idx)
       /\ TitleRank(a.event.title) < TitleRank(b.event.title)

SortedSpans(dates, by_day) ==
    LET se == SpanEvents(dates, by_day)
        sp == [i \in 1..Len(se) |-> SpanOf(dates, se[i])]
    IN  StableSort(sp, [i \in 1..Len(se), j \in 1..Len(se) |->
                           SpanBefore(sp[i], sp[j])])

\* Mutant: a span starting on the last day of another is let in.
LaneAccepts_OffByOne(lane, span) ==
    \A i \in 1..Len(lane) :
        span.end_idx < lane[i].start_idx \/ span.start_idx >= lane[i].end_idx

\* Mutant: a span is let in only with a free day between it and the others.
LaneAccepts_NeedsGap(lane, span) ==
    \A i \in 1..Len(lane) :
        span.end_idx + 1 < lane[i].start_idx \/ span.start_idx > lane[i].end_idx + 1

\* The test of line 521: the span overlaps nothing already in the lane.
LaneAccepts(lane, span) ==
    \A i \in 1..Len(lane) :
        span.end_idx < lane[i].start_idx \/ span.start_idx > lane[i].end_idx

\* Mutants: one lane too many, one lane too few.
MayOpenLane_OneMore(ls, ml) == Len(ls) <= ml

MayOpenLane_OneFewer(ls, ml) == Len(ls) + 1 < ml

\* The guard of line 527: a new lane may be opened.
MayOpenLane(ls, ml) == Len(ls) < ml

\* One turn of the loop of lines 518-530 on the state (lanes, overflow).
PlaceSpan(st, span, ml) ==
    IF \E k \in 1..Len(st.lanes) : LaneAccepts(st.lanes[k], span)
    THEN LET k == CHOOSE k \in 1..Len(st.lanes) :
                      /\ LaneAccepts(st.lanes[k], span)
                      /\ \A j \in 1..(k - 1) : ~LaneAccepts(st.lanes[j], span)
         IN  [st EXCEPT !.lanes[k] = Append(@, span)]
    ELSE IF MayOpenLane(st.lanes, ml)
         THEN [st EXCEPT !.lanes = Append(@, <<span>>)]
         ELSE [st EXCEPT !.overflow = @ + 1]

RECURSIVE PlaceAll(_, _, _)
PlaceAll(sorted, n, ml) ==
    IF n = 0 THEN [lanes |-> <<>>, overflow |-> 0]
    ELSE PlaceSpan(PlaceAll(sorted, n - 1, ml), sorted[n], ml)

\* _get_all_day_span_lanes: (lanes, overflow, set of keys), with the sorted
\* local list spans kept beside them.
GetAllDaySpanLanes(dates, by_day, ml) ==
    LET se == SpanEvents(dates, by_day)
        sorted == SortedSpans(dates, by_day)
        placed == PlaceAll(sorted, Len(sorted), ml)
    IN  [spans |-> sorted, lanes |-> placed.lanes, overflow |-> placed.overflow,
         keys |-> { EventKey(se[i]) : i \in 1..Len(se) }]

\* _draw_all_day_spans: one bar for every span of every lane.
DrawAllDaySpans(ls) ==
    UNION { { [lane |-> k - 1, start_idx |-> ls[k][i].start_idx,
               end_idx |-> ls[k][i].end_idx, event |-> ls[k][i].event] :
                i \in 1..Len(ls[k]) } : k \in 1..Len(ls) }

----------------------------------------------------------------------------
(* The renderers and main()                                                *)

\* max_lanes=3 of the three callers
MaxLanes == 3
\* range(7) and range(4): the days of a week row and of the four-day view
WeekLen == 7
FourDayLen == 4
\* view_config.get('max_events_per_day', default) of the three day placers
WeekMaxEvents == 5
TwoWeekMaxEvents == 3
FourDayMaxEvents == 10
\* days_ahead of main()'s get_events_for_range calls
WeekDaysAhead == 7
RangeDaysAhead == 14

\* date.weekday(): Monday is 0.
Weekday(d) == d % 7

WeekStart(t) == t - Weekday(t)

RowOf(first, n) == [i \in 1..n |-> first + (i - 1)]

\* The rows a view draws, in drawing order.
RowsOf(v, t) ==
    CASE v = "week" -> << RowOf(WeekStart(t), WeekLen) >>
      [] v = "two_week" -> << RowOf(WeekStart(t), WeekLen),
                              RowOf(WeekStart(t) + WeekLen, WeekLen) >>
      [] v = "four_day" -> << RowOf(t, FourDayLen) >>

PlacerMaxEvents(v) ==
    CASE v = "week" -> WeekMaxEvents
      [] v = "two_week" -> TwoWeekMaxEvents
      [] v = "four_day" -> FourDayMaxEvents

\* Mutant: the span events are not dropped.
FilteredEvents_NoFilter(day_list, keys) == day_list

\* The first lines of every day placer: drop the span events, keep the
\* first max_events of the rest.
FilteredEvents(day_list, keys) ==
    LET kept(e) == EventKey(e) \notin keys
    IN  SelectSeq(day_list, kept)

EventsToShow(day_list, keys, max_events) ==
    SubSeq(FilteredEvents(day_list, keys), 1,
           Min(max_events, Len(FilteredEvents(day_list, keys))))

\* The cells of a row: the day placer runs for the days that have events.
DrawCells(dates, by_day, keys, max_events) ==
    [d \in { dates[i] : i \in 1..Len(dates) } |->
        EventsToShow(DayList(by_day, d), keys, max_events)]

\* The geometry of a row: display height, footer, the rows' y, the day
\* header, the strip of the lane bars and the region of the day placer.
DisplayHeight == 480
FooterHeight == 40
LaneHeight == 18

\* y of the view's r-th row: row_height = available_height // 2.
RowTop(v, r) ==
    IF v = "two_week" /\ r = 2 THEN (DisplayHeight - FooterHeight) \div 2 ELSE 0

HeaderHeight(v) ==
    CASE v = "week" -> 40
      [] v = "two_week" -> 30
      [] v = "four_day" -> 50

AllDayTop(v, y) ==
    CASE v = "week" -> y + 40
      [] v = "two_week" -> y + 30
      [] v = "four_day" -> y + 60

\* lane_y of _draw_all_day_spans, and the bottom of the box it draws there.
LaneY(all_day_top, lane_idx) == all_day_top + lane_idx * LaneHeight
LaneBarBottom(all_day_top, lane_idx) == LaneY(all_day_top, lane_idx) + LaneHeight - 2

\* y of the region the day cell hands to its placer.
RegionTop(v, y, all_day_height) == y + HeaderHeight(v) + all_day_height

\* main(): parse, group by day and limit, by view (lines 183-221).
EventsByDayFor(v, t, raw) ==
    LET parsed == ParseAllEvents(raw)
    IN  CASE v = "two_week" -> GetEventsForRange(parsed, t, RangeDaysAhead, TwoWeekMaxEvents)
          [] v = "week" -> GetEventsForRange(parsed, t, WeekDaysAhead, WeekMaxEvents)
          [] v = "four_day" -> GetEventsForRange(parsed, t, RangeDaysAhead, 0)

NoRow == <<>>

\* No direct call of calendar_data.py has been made.
DataIdle ==
    /\ arg_events = <<>>
    /\ arg_start_date = 0
    /\ arg_end_date = 0
    /\ day_events_dict = <<>>
    /\ arg_max_events = 0
    /\ limited_events = <<>>

\* get_all_calendar_events has not been called.
FetchIdle ==
    /\ calendars = <<>>
    /\ futures = <<>>

\* Who starts scripts: cron, the POST /refresh handler, and the background
\* thread of POST /pics.
Starters == {"cron", "refresh", "pics"}

\* Nothing started.
NoScript ==
    [script |-> "none", at |-> "none", returncode |-> -1, got_lock |-> FALSE,
     refused |-> FALSE, failed |-> FALSE, touched |-> FALSE, displayed |-> FALSE, saved |-> FALSE]

ProcIdle ==
    /\ lock_holder = "none"
    /\ procs = [p \in Starters |-> NoScript]
    /\ response = 0

ExtInit == DataIdle /\ FetchIdle /\ ProcIdle

NoRegion == [y |-> 0, height |-> 0]

Init ==
    /\ today \in Todays
    /\ all_events \in FetchedLists(today)
    /\ view \in Views
    /\ pc = "fetched"
    /\ events_by_day = <<>>
    /\ row_dates = NoRow
    /\ max_lanes = 0
    /\ spans = <<>>
    /\ lanes = <<>>
    /\ overflow = 0
    /\ span_keys = {}
    /\ bars = {}
    /\ cells = <<>>
    /\ lane_more = 0
    /\ day_events = <<>>
    /\ region = NoRegion
    /\ next_event = 0
    /\ blocks = <<>>
    /\ skipped = <<>>
    /\ current_y = 0
    /\ more_shown = 0
    /\ raised = "none"
    /\ cut_by_limit = <<>>
    /\ ExtInit

ProcessEvents ==
    /\ pc = "fetched"
    /\ events_by_day' = EventsByDayFor(view, today, all_events)
    /\ pc' = "grouped"
    /\ UNCHANGED <<view, today, all_events, row_dates, max_lanes, spans, lanes,
                   overflow, span_keys, bars, cells, lane_more>>
    /\ UNCHANGED placer_vars
    /\ UNCHANGED ext_vars

\* A call of the lane packer on the view's first row with any lane limit.
PackRow ==
    /\ pc = "grouped"
    /\ \E ml \in 0..MaxLanes :
         \E res \in { GetAllDaySpanLanes(RowsOf(view, today)[1], events_by_day, ml) } :
             /\ row_dates' = RowsOf(view, today)[1]
             /\ max_lanes' = ml
             /\ spans' = res.spans
             /\ lanes' = res.lanes
             /\ overflow' = res.overflow
             /\ span_keys' = res.keys
    /\ pc' = "packed"
    /\ UNCHANGED <<view, today, all_events, events_by_day, bars, cells, lane_more>>
    /\ UNCHANGED placer_vars
    /\ UNCHANGED ext_vars

\* One row as the three row drawers draw it: the packer with max_lanes=3,
\* the lane bars, then the cells.  The returned overflow is bound to a local
\* name and never read again, so nothing of it reaches the canvas.
DrawRow(r, next_pc) ==
    \E dates \in { RowsOf(view, today)[r] } :
    \E res \in { GetAllDaySpanLanes(dates, events_by_day, MaxLanes) } :
        /\ row_dates' = dates
        /\ max_lanes' = MaxLanes
        /\ spans' = res.spans
        /\ lanes' = res.lanes
        /\ overflow' = res.overflow
        /\ span_keys' = res.keys
        /\ bars' = DrawAllDaySpans(res.lanes)
        /\ cells' = DrawCells(dates, events_by_day, res.keys, PlacerMaxEvents(view))
        /\ lane_more' = 0
        /\ pc' = next_pc
        /\ UNCHANGED <<view, today, all_events, events_by_day>>
        /\ UNCHANGED placer_vars
        /\ UNCHANGED ext_vars

WeekRender ==
    /\ pc = "grouped"
    /\ view = "week"
    /\ DrawRow(1, "drawn")

FourDayRender ==
    /\ pc = "grouped"
    /\ view = "four_day"
    /\ DrawRow(1, "drawn")

TwoWeekRow1 ==
    /\ pc = "grouped"
    /\ view = "two_week"
    /\ DrawRow(1, "week2")

TwoWeekRow2 ==
    /\ pc = "week2"
    /\ view = "two_week"
    /\ DrawRow(2, "drawn")

Next ==
    \/ ProcessEvents
    \/ PackRow
    \/ WeekRender
    \/ FourDayRender
    \/ TwoWeekRow1
    \/ TwoWeekRow2

Spec == Init /\ [][Next]_vars

----------------------------------------------------------------------------
(* The day placers: WeekRenderer._draw_events_in_cell,                     *)
(* FourDayRenderer._draw_events_in_column (the same code with other size   *)
(* thresholds) and TwoWeekRenderer._draw_events_in_cell.  Pixels are       *)
(* integers; the start times are whole hours, for which the float          *)
(* arithmetic of the code (a product with height / 16) is exact.           *)

\* int(n / d) for d > 0: truncation towards zero.
Trunc(n, d) == IF n >= 0 THEN n \div d ELSE -((-n) \div d)

\* The size class chosen from num_events: 1 is the largest text.
SizeClass(v, num_events) ==
    LET small == CASE v = "week" -> 2 [] v = "two_week" -> 2 [] v = "four_day" -> 3
        medium == CASE v = "week" -> 4 [] v = "two_week" -> 3 [] v = "four_day" -> 6
    IN  IF num_events <= small THEN 1
        ELSE IF num_events <= medium THEN 2 ELSE 3

LineHeight(v, num_events) ==
    CASE SizeClass(v, num_events) = 1 -> 18
      [] SizeClass(v, num_events) = 2 -> 16
      [] SizeClass(v, num_events) = 3 -> 14

MinBarHeight(v, num_events) ==
    CASE SizeClass(v, num_events) = 1 -> 36
      [] SizeClass(v, num_events) = 2 -> 28
      [] SizeClass(v, num_events) = 3 -> 22

\* start_hour, end_hour and the gap added when a block is moved down
StartHour == 6
EndHour == 22
NudgeGap == 2
\* the padding in len(text_lines) * line_height + 4 and the cap of 6 lines
TextPadding == 4
MaxLineCap == 6
\* the room the two-week placer wants for its "+N more" line
MoreHeight == 15
\* the gap the two-week placer leaves under a block
BlockGap == 2

\* event.start.hour, clamped to the display range.
ClampedHour(event) ==
    LET event_hour == event.start % HoursPerDay
    IN  IF event_hour < StartHour THEN StartHour
        ELSE IF event_hour > EndHour THEN EndHour ELSE event_hour

\* event_y of a timed event: y + int(hours_from_start * pixels_per_hour)
TimeTop(reg, event) ==
    reg.y + Trunc((ClampedHour(event) - StartHour) * reg.height,
                  EndHour - StartHour)

\* bar_height of a timed event, from its duration.
DurationBar(reg, event, min_bar_height) ==
    Max(Trunc((event.end - event.start) * reg.height, EndHour - StartHour),
        min_bar_height)

\* Mutant: only the third of the region caps an all-day block.
AllDayMaxHeight_ThirdOnly(reg, min_bar_height) == reg.height \div 3

\* all_day_max_height
AllDayMaxHeight(reg, min_bar_height) ==
    Min(reg.height \div 3, min_bar_height * 3)

\* Mutant: the cap of six lines is left out.
MaxTextLines_NoCap(available, line_height) ==
    Max(1, (available - TextPadding) \div line_height)

\* max_text_lines from the height the text may use.
MaxTextLines(available, line_height) ==
    Max(1, Min(MaxLineCap, (available - TextPadding) \div line_height))

\* The number of lines the text of an event needs at the width and font of
\* the call: one for the title "a", reg.long for the title "b".
LinesNeeded(reg, event) == IF event.title = "a" THEN 1 ELSE reg.long

\* len(wrap_text(..., max_lines)): wrapping stops at max_lines.
WrapText(reg, event, max_lines) == Min(LinesNeeded(reg, event), max_lines)

\* Mutant: a block is moved to the end of the slot, without the gap.
Nudged_NoGap(event_y, bar_height, occupied_start, occupied_end) ==
    IF event_y < occupied_end /\ event_y + bar_height > occupied_start
    THEN occupied_end ELSE event_y

\* The test against one occupied slot and the move below it.
Nudged(event_y, bar_height, occupied_start, occupied_end) ==
    IF event_y < occupied_end /\ event_y + bar_height > occupied_start
    THEN occupied_end + NudgeGap ELSE event_y

\* The loop over occupied_slots: each slot is tested once, in the order the
\* blocks were drawn, against the position reached so far.
RECURSIVE NudgeDown(_, _, _, _)
NudgeDown(drawn, i, event_y, bar_height) ==
    IF i > Len(drawn) THEN event_y
    ELSE NudgeDown(drawn, i + 1,
                   Nudged(event_y, bar_height, drawn[i].top,
                          drawn[i].top + drawn[i].height),
                   bar_height)

\* Mutant: the block is drawn whether it fits or not.
StillFits_Always(event_y, bar_height, bottom) == TRUE

\* The test before a block is given up: it does not pass the bottom.
StillFits(event_y, bar_height, bottom) == ~(event_y + bar_height > bottom)


\* One pass of the loop body of the week / four-day placer for the event at
\* index idx of events_to_show, given the blocks drawn so far.
PlaceByTime(v, reg, events_to_show, idx, drawn) ==
    LET event == events_to_show[idx]
        line_height == LineHeight(v, Len(events_to_show))
        min_bar_height == MinBarHeight(v, Len(events_to_show))
        all_day_max_height == AllDayMaxHeight(reg, min_bar_height)
        time_y == IF event.all_day THEN reg.y ELSE TimeTop(reg, event)
        first_height == IF event.all_day THEN all_day_max_height
                        ELSE DurationBar(reg, event, min_bar_height)
        max_text_lines == MaxTextLines(first_height, line_height)
        text_lines == WrapText(reg, event, max_text_lines)
        bar_height == IF event.all_day
                      THEN Min(Max(min_bar_height, text_lines * line_height + TextPadding),
                               all_day_max_height)
                      ELSE first_height
        event_y == NudgeDown(drawn, 1, time_y, bar_height)
        bottom == reg.y + reg.height
        shrunk == event_y + bar_height > bottom
        final_height == IF shrunk THEN Max(bottom - event_y, min_bar_height)
                        ELSE bar_height
    IN  [drawn |-> ~shrunk \/ StillFits(event_y, final_height, bottom),
         block |-> [event |-> idx, top |-> event_y, height |-> final_height,
                    lines |-> text_lines, max_text_lines |-> max_text_lines,
                    shrunk |-> shrunk]]

\* One pass of the loop body of the two-week placer at current_y = cur.
PlaceInOrder(reg, events_to_show, idx, cur) ==
    LET event == events_to_show[idx]
        line_height == LineHeight("two_week", Len(events_to_show))
        min_bar_height == MinBarHeight("two_week", Len(events_to_show))
        remaining_height == (reg.y + reg.height) - cur
        max_text_lines == MaxTextLines(remaining_height, line_height)
        text_lines == WrapText(reg, event, max_text_lines)
        bar_height == Max(min_bar_height, text_lines * line_height + TextPadding)
    IN  [drawn |-> StillFits(cur, bar_height, reg.y + reg.height),
         block |-> [event |-> idx, top |-> cur, height |-> bar_height,
                    lines |-> text_lines, max_text_lines |-> max_text_lines,
                    shrunk |-> FALSE]]

\* overflow_count of the two-week placer and whether its line is drawn.
MoreShown(reg, filtered_events, max_events, cur) ==
    LET overflow_count == Max(0, Len(filtered_events) - max_events)
    IN  IF overflow_count > 0 /\ cur + MoreHeight <= reg.y + reg.height
        THEN overflow_count ELSE 0

----------------------------------------------------------------------------
(* Direct calls of the day placers and of the lane packer, with arguments  *)
(* drawn from bounded sets.                                                *)

\* Largest number of events in a day's list.
MaxDayEvents == 7

\* The day of the cell.
PlacerDay == 8

\* The events a day's list is drawn from, as the hub returns them: two
\* one-day all-day events, an all-day event over three days, a timed event
\* that started the day before, five timed events of the day (four with the
\* same start, the first of them ten hours long, and one following another
\* back to back) and a late one that runs past midnight.
PlacerRaw ==
    << [entity_id |-> "cal_a", summary |-> "a", fmt |-> "date",
        start |-> PlacerDay, end |-> PlacerDay + 1],
       [entity_id |-> "cal_a", summary |-> "b", fmt |-> "date",
        start |-> PlacerDay, end |-> PlacerDay + 1],
       [entity_id |-> "cal_b", summary |-> "a", fmt |-> "date",
        start |-> PlacerDay - 1, end |-> PlacerDay + 2],
       [entity_id |-> "cal_a", summary |-> "a", fmt |-> "dateTime",
        start |-> (PlacerDay - 1) * HoursPerDay + 16,
        end |-> (PlacerDay + 1) * HoursPerDay + 1],
       [entity_id |-> "cal_a", summary |-> "a", fmt |-> "dateTime",
        start |-> PlacerDay * HoursPerDay + 8, end |-> PlacerDay * HoursPerDay + 18],
       [entity_id |-> "cal_a", summary |-> "a", fmt |-> "dateTime",
        start |-> PlacerDay * HoursPerDay + 8, end |-> PlacerDay * HoursPerDay + 10],
       [entity_id |-> "cal_a", summary |-> "b", fmt |-> "dateTime",
        start |-> PlacerDay * HoursPerDay + 8, end |-> PlacerDay * HoursPerDay + 15],
       [entity_id |-> "cal_b", summary |-> "a", fmt |-> "dateTime",
        start |-> PlacerDay * HoursPerDay + 8, end |-> PlacerDay * HoursPerDay + 9],
       [entity_id |-> "cal_b", summary |-> "a", fmt |-> "dateTime",
        start |-> PlacerDay * HoursPerDay + 10, end |-> PlacerDay * HoursPerDay + 11],
       [entity_id |-> "cal_b", summary |-> "b", fmt |-> "dateTime",
        start |-> PlacerDay * HoursPerDay + 23,
        end |-> (PlacerDay + 1) * HoursPerDay + 2] >>

\* The parsed events, in parse_all_events order.
PlacerPool == ParseAllEvents(PlacerRaw)

\* A day's list: some events of the pool, in the order group_events_by_day
\* gives a day (all-day first, then by start, ties in parse order).
DayListOf(S) ==
    LET chosen(e) == \E i \in S : PlacerPool[i] = e
        es == SelectSeq(PlacerPool, chosen)
    IN  StableSort(es, [i \in 1..Len(es), j \in 1..Len(es) |->
                           DayBefore(es[i], es[j])])

DayLists ==
    { DayListOf(S) : S \in { T \in SUBSET (1..Len(PlacerPool)) :
                               Cardinality(T) <= MaxDayEvents } }

\* y and height of the region: a negative and an empty one, one too low for
\* three minimum bars, and the regions of an 800 x 480 and a taller display.
RegionTops == {58}
RegionHeights == {-16, 0, 100, 188, 398, 480}
LongTitleLines == {3, 7}

Regions == [y : RegionTops, height : RegionHeights, long : LongTitleLines]

\* The span keys the lane packer returns for a row that holds the day.
SpanKeysOf(day_list) ==
    { EventKey(day_list[i]) : i \in { j \in 1..Len(day_list) :
          IsAllDay(day_list[j]) /\ IsMultiDay(day_list[j]) } }


\* The rows of a direct lane packer call: none, two days with a day missing
\* between them, and two and three days in a row.
DirectRows ==
    { <<>>, <<PlacerDay, PlacerDay + 2>>, <<PlacerDay, PlacerDay + 1>>,
      <<PlacerDay - 1, PlacerDay, PlacerDay + 1>> }

DirectMaxLanes == {-1, 0, 1}

DirectEventsByDay ==
    { GroupEventsByDay(es, PlacerDay - 1, PlacerDay + 3) : es \in {<<>>, PlacerPool} }

\* The exception a lane packer call ends with: dates[0] of an empty list
\* (line 481), dates.index of a day that is not in the list (lines 509, 510).
PackerRaises(dates, by_day) ==
    IF dates = <<>> THEN "IndexError"
    ELSE LET se == SpanEvents(dates, by_day)
             in_row(d) == \E i \in 1..Len(dates) : dates[i] = d
             found(e) ==
                 /\ in_row(Max(Date(e.start), dates[1]))
                 /\ in_row(Min(EndInclusive(e), dates[Len(dates)]))
         IN  IF \A i \in 1..Len(se) : found(se[i]) THEN "none" ELSE "ValueError"

\* The region's bottom and the events the placer's loop runs over.
Bottom == region.y + region.height
ShownEvents == EventsToShow(day_events, span_keys, PlacerMaxEvents(view))

PlacerInit ==
    /\ pc = "idle"
    /\ view = "week"
    /\ today = PlacerDay
    /\ all_events = <<>>
    /\ events_by_day = <<>>
    /\ row_dates = NoRow
    /\ max_lanes = 0
    /\ spans = <<>>
    /\ lanes = <<>>
    /\ overflow = 0
    /\ span_keys = {}
    /\ bars = {}
    /\ cells = <<>>
    /\ lane_more = 0
    /\ day_events = <<>>
    /\ region = NoRegion
    /\ next_event = 0
    /\ blocks = <<>>
    /\ skipped = <<>>
    /\ current_y = 0
    /\ more_shown = 0
    /\ raised = "none"
    /\ cut_by_limit = <<>>
    /\ ExtInit

row_vars == <<today, all_events, events_by_day, row_dates, max_lanes, spans,
              lanes, overflow, bars, cells, lane_more>>

\* max_per_day of main()'s get_events_for_range call before the renderer:
\* the two-week view's own max_events_per_day, or 0 for a list handed over
\* as group_events_by_day built it.
LimitsBefore(v) == IF v = "two_week" THEN {0, TwoWeekMaxEvents} ELSE {0}

\* The day's list as get_events_for_range hands it over.
GetEventsForDay(day_list, max_per_day) ==
    LET by_day == [d \in {PlacerDay} |->
                     [date |-> d, events |-> day_list, overflow_count |-> -1]]
    IN  IF max_per_day # 0
        THEN LimitEventsPerDay(by_day, max_per_day)[PlacerDay].events
        ELSE day_list

\* A day placer is called: the lines before its loop.
CallPlacer(v) ==
    /\ pc = "idle"
    /\ \E day_list \in DayLists : \E reg \in Regions : \E max_per_day \in LimitsBefore(v) :
       \E given \in { GetEventsForDay(day_list, max_per_day) } :
         /\ day_events' = given
         /\ cut_by_limit' = SubSeq(day_list, Len(given) + 1, Len(day_list))
         /\ span_keys' = SpanKeysOf(day_list)
         /\ region' = reg
         /\ current_y' = reg.y
    /\ view' = v
    /\ next_event' = 1
    /\ blocks' = <<>>
    /\ skipped' = <<>>
    /\ more_shown' = 0
    /\ pc' = "placing"
    /\ UNCHANGED <<row_vars, raised, ext_vars>>

\* One pass of the loop of the week / four-day placer.
DrawByTime ==
    /\ pc = "placing"
    /\ next_event <= Len(ShownEvents)
    /\ \E res \in { PlaceByTime(view, region, ShownEvents, next_event, blocks) } :
         /\ blocks' = IF res.drawn THEN Append(blocks, res.block) ELSE blocks
         /\ skipped' = IF res.drawn THEN skipped ELSE Append(skipped, res.block)
    /\ next_event' = next_event + 1
    /\ UNCHANGED <<pc, view, span_keys, day_events, region, current_y, more_shown,
                   row_vars, raised, cut_by_limit, ext_vars>>

WeekDrawEvent == view = "week" /\ DrawByTime

FourDayDrawEvent == view = "four_day" /\ DrawByTime

\* The loop of the week / four-day placer is over and the placer returns.
PlacerReturn ==
    /\ pc = "placing"
    /\ view \in {"week", "four_day"}
    /\ next_event > Len(ShownEvents)
    /\ pc' = "placed"
    /\ UNCHANGED <<view, span_keys, placer_vars, row_vars, ext_vars>>

\* One pass of the loop of the two-week placer; without room it breaks.
TwoWeekDrawEvent ==
    /\ pc = "placing"
    /\ view = "two_week"
    /\ next_event <= Len(ShownEvents)
    /\ \E res \in { PlaceInOrder(region, ShownEvents, next_event, current_y) } :
         IF res.drawn
         THEN /\ blocks' = Append(blocks, res.block)
              /\ current_y' = current_y + res.block.height + BlockGap
              /\ next_event' = next_event + 1
              /\ UNCHANGED skipped
         ELSE /\ skipped' = Append(skipped, res.block)
              /\ next_event' = Len(ShownEvents) + 1
              /\ UNCHANGED <<blocks, current_y>>
    /\ UNCHANGED <<pc, view, span_keys, day_events, region, more_shown,
                   row_vars, raised, cut_by_limit, ext_vars>>

\* After the loop of the two-week placer: the "+N more" line.
TwoWeekMore ==
    /\ pc = "placing"
    /\ view = "two_week"
    /\ next_event > Len(ShownEvents)
    /\ more_shown' = MoreShown(region, FilteredEvents(day_events, span_keys),
                               PlacerMaxEvents(view), current_y)
    /\ pc' = "placed"
    /\ UNCHANGED <<view, span_keys, day_events, region, next_event, blocks,
                   skipped, current_y, row_vars, raised, cut_by_limit, ext_vars>>

\* A direct call of the lane packer.
CallPacker ==
    /\ pc = "idle"
    /\ \E dates \in DirectRows : \E by_day \in DirectEventsByDay :
       \E ml \in DirectMaxLanes :
         /\ row_dates' = dates
         /\ events_by_day' = by_day
         /\ max_lanes' = ml
         /\ raised' = PackerRaises(dates, by_day)
         /\ IF PackerRaises(dates, by_day) = "none"
            THEN \E res \in { GetAllDaySpanLanes(dates, by_day, ml) } :
                   /\ spans' = res.spans
                   /\ lanes' = res.lanes
                   /\ overflow' = res.overflow
                   /\ span_keys' = res.keys
            ELSE UNCHANGED <<spans, lanes, overflow, span_keys>>
    /\ pc' = "returned"
    /\ UNCHANGED <<view, today, all_events, bars, cells, lane_more, day_events,
                   region, next_event, blocks, skipped, current_y, more_shown,
                   cut_by_limit, ext_vars>>

PlacerNext ==
    \/ \E v \in Views : CallPlacer(v)
    \/ WeekDrawEvent
    \/ FourDayDrawEvent
    \/ PlacerReturn
    \/ TwoWeekDrawEvent
    \/ TwoWeekMore
    \/ CallPacker

PlacerSpec == PlacerInit /\ [][PlacerNext]_vars

----------------------------------------------------------------------------
(* Direct calls of CalendarDataProcessor.group_events_by_day and           *)
(* limit_events_per_day, on lists of the events of the pool above.         *)

run_vars == <<view, today, all_events, events_by_day, row_dates, max_lanes,
              spans, lanes, overflow, span_keys, bars, cells, lane_more>>

\* The events argument: some events of the pool, in parse_all_events order.
EventLists ==
    { SelectSeq(PlacerPool, LAMBDA e : \E i \in T : PlacerPool[i] = e) :
        T \in { U \in SUBSET (1..Len(PlacerPool)) : Cardinality(U) <= MaxDayEvents } }

\* start_date (inclusive) and end_date (exclusive) of the call.
StartDates == {PlacerDay - 1, PlacerDay}
EndDates == {PlacerDay + 1, PlacerDay + 3}

\* max_events of a limit_events_per_day call.
LimitArgs == {0, 1, 3}

DataInit == PlacerInit

CallGroupEventsByDay ==
    /\ pc = "idle"
    /\ \E es \in EventLists : \E sd \in StartDates : \E ed \in EndDates :
         /\ arg_events' = es
         /\ arg_start_date' = sd
         /\ arg_end_date' = ed
         /\ day_events_dict' = GroupEventsByDay(es, sd, ed)
    /\ pc' = "dict_built"
    /\ UNCHANGED <<arg_max_events, limited_events>>
    /\ UNCHANGED <<run_vars, placer_vars, fetch_vars, proc_vars>>

CallLimitEventsPerDay ==
    /\ pc = "dict_built"
    /\ \E m \in LimitArgs :
         /\ arg_max_events' = m
         /\ limited_events' = LimitEventsPerDay(day_events_dict, m)
    /\ pc' = "limited"
    /\ UNCHANGED <<arg_events, arg_start_date, arg_end_date, day_events_dict>>
    /\ UNCHANGED <<run_vars, placer_vars, fetch_vars, proc_vars>>

DataNext ==
    \/ CallGroupEventsByDay
    \/ CallLimitEventsPerDay

DataSpec == DataInit /\ [][DataNext]_vars

----------------------------------------------------------------------------
(* ha_client.py: get_all_calendar_events, the get_calendar_events calls it  *)
(* submits to its thread pool, and _retry_request inside each of them.     *)

MaxRetries == 3
BackoffFactor == 2
PoolCap == 8

\* Entity ids a configuration may list.
EntityIds == <<"cal_a", "cal_b", "cal_c", "cal_d", "cal_e", "cal_f", "cal_g",
               "cal_h", "cal_i">>

\* Numbers of configured calendars: none, fewer than the pool's cap, more.
CalendarCounts == {0, 2, 9}

\* Calendars whose requests may fail; the others answer at the first attempt.
Flaky == {"cal_a", "cal_b"}

\* The events the hub answers for a calendar.
HubAnswer(entity_id) == <<[entity_id |-> entity_id, summary |-> "a"]>>

\* wait_time = backoff_factor ** attempt
WaitTime_Doubling(attempt) == BackoffFactor * (attempt + 1)

WaitTime(attempt) == BackoffFactor ^ attempt

\* max_workers = min(8, len(calendars))
MaxWorkers_Uncapped(n) == n

MaxWorkers(n) == Min(PoolCap, n)

\* all_events[entity_id] = future.result()
StoreResult_FailureWipes(events_dict, entity_id, result) ==
    [x \in DOMAIN events_dict \cup {entity_id} |->
        IF x = entity_id \/ result = <<>> THEN result ELSE events_dict[x]]

StoreResult(events_dict, entity_id, result) ==
    [x \in DOMAIN events_dict \cup {entity_id} |->
        IF x = entity_id THEN result ELSE events_dict[x]]

\* A submitted call that no worker has taken yet.
Queued ==
    [status |-> "queued", attempt |-> 0, outcomes |-> <<>>, waits |-> <<>>,
     raised |-> FALSE, result |-> <<>>]

\* The calls a worker is running: in a request or asleep between two.
InFlight == { c \in DOMAIN futures : futures[c].status \in {"requesting", "sleeping"} }

FetchInit == PlacerInit

\* get_all_calendar_events up to the end of the submit loop; without
\* calendars it returns the empty mapping at once.
CallGetAllCalendarEvents ==
    /\ pc = "idle"
    /\ \E n \in CalendarCounts :
         /\ calendars' = SubSeq(EntityIds, 1, n)
         /\ futures' = [c \in { EntityIds[i] : i \in 1..n } |-> Queued]
         /\ pc' = IF n = 0 THEN "fetched" ELSE "fetching"
    /\ all_events' = <<>>
    /\ UNCHANGED <<view, today, events_by_day, row_dates, max_lanes, spans, lanes,
                   overflow, span_keys, bars, cells, lane_more>>
    /\ UNCHANGED <<placer_vars, data_vars, proc_vars>>

fetch_rest == <<pc, view, today, all_events, events_by_day, row_dates, max_lanes,
                spans, lanes, overflow, span_keys, bars, cells, lane_more,
                placer_vars, data_vars, proc_vars, calendars>>

\* A worker of the pool takes the oldest queued call: the pool has
\* max_workers threads and a FIFO work queue.
StartFetch ==
    /\ pc = "fetching"
    /\ Cardinality(InFlight) < MaxWorkers(Len(calendars))
    /\ \E i \in 1..Len(calendars) :
         /\ futures[calendars[i]].status = "queued"
         /\ \A j \in 1..(i - 1) : futures[calendars[j]].status # "queued"
         /\ futures' = [futures EXCEPT ![calendars[i]].status = "requesting"]
    /\ UNCHANGED fetch_rest

\* requests.request and raise_for_status pass: _retry_request returns the
\* response and get_calendar_events returns its events.
RequestSucceeds ==
    /\ pc = "fetching"
    /\ \E c \in DOMAIN futures :
         /\ futures[c].status = "requesting"
         /\ futures' = [futures EXCEPT
                ![c].status = "done",
                ![c].outcomes = Append(@, "ok"),
                ![c].result = HubAnswer(c)]
    /\ UNCHANGED fetch_rest

\* The request raises a RequestException: sleep and try again, or after the
\* last attempt re-raise, which get_calendar_events turns into [].
RequestFails ==
    /\ pc = "fetching"
    /\ \E c \in DOMAIN futures \cap Flaky :
         /\ futures[c].status = "requesting"
         /\ futures' =
              IF futures[c].attempt < MaxRetries - 1
              THEN [futures EXCEPT
                      ![c].status = "sleeping",
                      ![c].outcomes = Append(@, "failed"),
                      ![c].waits = Append(@, WaitTime(futures[c].attempt))]
              ELSE [futures EXCEPT
                      ![c].status = "done",
                      ![c].outcomes = Append(@, "failed"),
                      ![c].raised = TRUE,
                      ![c].result = <<>>]
    /\ UNCHANGED fetch_rest

\* time.sleep returns: the next attempt.
NextAttempt ==
    /\ pc = "fetching"
    /\ \E c \in DOMAIN futures :
         /\ futures[c].status = "sleeping"
         /\ futures' = [futures EXCEPT
                ![c].status = "requesting",
                ![c].attempt = @ + 1]
    /\ UNCHANGED fetch_rest

\* One pass of the as_completed loop.
CollectResult ==
    /\ pc = "fetching"
    /\ \E c \in DOMAIN futures :
         /\ futures[c].status = "done"
         /\ futures' = [futures EXCEPT ![c].status = "collected"]
         /\ all_events' = StoreResult(all_events, c, futures[c].result)
    /\ UNCHANGED <<view, today, events_by_day, row_dates, max_lanes, spans, lanes,
                   overflow, span_keys, bars, cells, lane_more, pc, calendars>>
    /\ UNCHANGED <<placer_vars, data_vars, proc_vars>>

\* The loop is over and the pool is shut down: return all_events.
ReturnAllEvents ==
    /\ pc = "fetching"
    /\ \A c \in DOMAIN futures : futures[c].status = "collected"
    /\ pc' = "fetched"
    /\ UNCHANGED <<view, today, all_events, events_by_day, row_dates, max_lanes,
                   spans, lanes, overflow, span_keys, bars, cells, lane_more>>
    /\ UNCHANGED <<placer_vars, data_vars, fetch_vars, proc_vars>>

FetchNext ==
    \/ CallGetAllCalendarEvents
    \/ StartFetch
    \/ RequestSucceeds
    \/ RequestFails
    \/ NextAttempt
    \/ CollectResult
    \/ ReturnAllEvents

FetchSpec == FetchInit /\ [][FetchNext]_vars

----------------------------------------------------------------------------
(* The processes that use the display: main.py started by cron, by the     *)
(* POST /refresh handler and by the POST /pics thread, and show_pic.py     *)
(* started by that thread.  A script is "at" the call it is in.            *)

proc_rest == <<pc, run_vars, placer_vars, data_vars, fetch_vars>>

\* A script just started.
Started(script, at) == [NoScript EXCEPT !.script = script, !.at = at]

Running(p) == procs[p].script # "none" /\ procs[p].at # "exited"

Idle(p) == ~Running(p)

\* The process is inside init_display, or inside display_image and sleep.
Touching(p) == Running(p) /\ procs[p].at \in {"init_display", "display_image"}

\* The process ends: its flock, if it holds it, is gone with it.
Released(p) == IF lock_holder = p THEN "none" ELSE lock_holder

\* The server handles one request at a time: the POST /refresh handler is
\* not waiting for its run.
HandlerFree == Idle("refresh") /\ (procs["refresh"].script = "none" \/ response # 0)

ProcInit == PlacerInit

\* cron starts main.py.
CronRun ==
    /\ Idle("cron")
    /\ procs' = [procs EXCEPT !["cron"] = Started("main.py", "flock")]
    /\ UNCHANGED <<lock_holder, response, proc_rest>>

\* POST /refresh: the handler starts main.py and waits for it.
PostRefresh ==
    /\ HandlerFree
    /\ procs' = [procs EXCEPT !["refresh"] = Started("main.py", "flock")]
    /\ response' = 0
    /\ UNCHANGED <<lock_holder, proc_rest>>

\* POST /pics: the handler's thread starts show_pic.py.
PostPics ==
    /\ HandlerFree
    /\ Idle("pics")
    /\ procs' = [procs EXCEPT !["pics"] = Started("show_pic.py", "init_display")]
    /\ UNCHANGED <<lock_holder, response, proc_rest>>

\* main.py, the lock block: flock(LOCK_EX | LOCK_NB), then main(); on
\* OSError it prints and exits with status 0.
TryLock(p) ==
    /\ procs[p].script = "main.py"
    /\ procs[p].at = "flock"
    /\ IF lock_holder = "none"
       THEN /\ lock_holder' = p
            /\ procs' = [procs EXCEPT ![p].at = "main", ![p].got_lock = TRUE]
       ELSE /\ procs' = [procs EXCEPT ![p].at = "exited", ![p].refused = TRUE,
                                      ![p].returncode = 0]
            /\ UNCHANGED lock_holder
    /\ UNCHANGED <<response, proc_rest>>

\* main() up to the display: fetch, process, render.  It gets through, or
\* an exception takes it to the handler that shows the error on the display.
FetchAndRender(p) ==
    /\ procs[p].script = "main.py"
    /\ procs[p].at = "main"
    /\ \E failed \in BOOLEAN :
         procs' = [procs EXCEPT ![p].at = "init_display", ![p].failed = failed]
    /\ UNCHANGED <<lock_holder, response, proc_rest>>

\* display.init_display() returns.
InitDisplay(p) ==
    /\ Running(p)
    /\ procs[p].at = "init_display"
    /\ procs' = [procs EXCEPT ![p].at = "display_image", ![p].touched = TRUE]
    /\ UNCHANGED <<lock_holder, response, proc_rest>>

\* display.display_image() and display.sleep() return: main() goes on to
\* save_state, its error handler exits with status 1, show_pic.py sleeps.
DisplayImage(p) ==
    /\ Running(p)
    /\ procs[p].at = "display_image"
    /\ IF procs[p].script = "show_pic.py"
       THEN /\ procs' = [procs EXCEPT ![p].at = "time.sleep", ![p].displayed = TRUE]
            /\ UNCHANGED lock_holder
       ELSE IF procs[p].failed
       THEN /\ procs' = [procs EXCEPT ![p].at = "exited", ![p].returncode = 1]
            /\ lock_holder' = Released(p)
       ELSE /\ procs' = [procs EXCEPT ![p].at = "save_state", ![p].displayed = TRUE]
            /\ UNCHANGED lock_holder
    /\ UNCHANGED <<response, proc_rest>>

\* save_state, and main.py ends with status 0 and releases the lock.
SaveState(p) ==
    /\ procs[p].script = "main.py"
    /\ procs[p].at = "save_state"
    /\ procs' = [procs EXCEPT ![p].at = "exited", ![p].saved = TRUE,
                              ![p].returncode = 0]
    /\ lock_holder' = Released(p)
    /\ UNCHANGED <<response, proc_rest>>

\* show_pic.py ends after its 15 s, and the thread starts main.py.
RestoreCalendar ==
    /\ procs["pics"].script = "show_pic.py"
    /\ procs["pics"].at = "time.sleep"
    /\ procs' = [procs EXCEPT !["pics"] = Started("main.py", "flock")]
    /\ UNCHANGED <<lock_holder, response, proc_rest>>

\* subprocess.run(timeout=120) of the handler: the run is killed, 500.
RefreshTimeout ==
    /\ Running("refresh")
    /\ response = 0
    /\ procs' = [procs EXCEPT !["refresh"].at = "exited", !["refresh"].returncode = -9]
    /\ lock_holder' = Released("refresh")
    /\ response' = 500
    /\ UNCHANGED proc_rest

\* The handler answers by the return code.
Answer(returncode) == IF returncode = 0 THEN 200 ELSE 500

RefreshResponds ==
    /\ procs["refresh"].script = "main.py"
    /\ procs["refresh"].at = "exited"
    /\ response = 0
    /\ response' = Answer(procs["refresh"].returncode)
    /\ UNCHANGED <<lock_holder, procs, proc_rest>>

ProcNext ==
    \/ CronRun
    \/ PostRefresh
    \/ PostPics
    \/ \E p \in Starters : TryLock(p)
    \/ \E p \in Starters : FetchAndRender(p)
    \/ \E p \in Starters : InitDisplay(p)
    \/ \E p \in Starters : DisplayImage(p)
    \/ \E p \in Starters : SaveState(p)
    \/ RestoreCalendar
    \/ RefreshTimeout
    \/ RefreshResponds

ProcSpec == ProcInit /\ [][ProcNext]_vars

----------------------------------------------------------------------------
(* Properties.  They are stated on the result left in the state by the     *)
(* last lane packer call, with the claims' own words for key, qualifying   *)
(* event and overlap rather than the packer's operators.                   *)

\* A lane packer result is in the state.
Packed == pc \in {"packed", "week2", "drawn"}

\* A row has been drawn.
RowDrawn == pc \in {"week2", "drawn"}

RowDays == { row_dates[i] : i \in 1..Len(row_dates) }
RowFirst == row_dates[1]
RowLast == row_dates[Len(row_dates)]

\* The events attached to the days of the row.
RowEvents ==
    UNION { { events_by_day[d].events[i] : i \in 1..Len(events_by_day[d].events) } :
              d \in RowDays \cap DOMAIN events_by_day }

KeyOf(e) == <<e.calendar_id, e.title, e.start, e.end>>
FirstDay(e) == e.start \div HoursPerDay
LastDay(e) == (e.end \div HoursPerDay) - 1

\* A qualifying event: all-day, more than one day, meeting the row.
Qualifying(e) ==
    /\ e.all_day
    /\ LastDay(e) > FirstDay(e)
    /\ LastDay(e) >= RowFirst
    /\ FirstDay(e) <= RowLast

QualifyingKeys == { KeyOf(e) : e \in { x \in RowEvents : Qualifying(x) } }

LaneSpans(k) == { lanes[k][i] : i \in 1..Len(lanes[k]) }
PlacedSpans == UNION { LaneSpans(k) : k \in 1..Len(lanes) }
AllSpans == { spans[i] : i \in 1..Len(spans) }
DroppedSpans == AllSpans \ PlacedSpans

RECURSIVE SumLens(_)
SumLens(ls) == IF ls = <<>> THEN 0 ELSE Len(Head(ls)) + SumLens(Tail(ls))

Disjoint(a, b) == a.end_idx < b.start_idx \/ b.end_idx < a.start_idx

\* C1: any two distinct spans of one lane have disjoint index ranges.
C1_NoOverlapInLane ==
    Packed =>
        \A k \in 1..Len(lanes) : \A i \in 1..Len(lanes[k]) : \A j \in 1..Len(lanes[k]) :
            i # j => Disjoint(lanes[k][i], lanes[k][j])

C1_Witness ==
    /\ Packed
    /\ \E k \in 1..Len(lanes) : Len(lanes[k]) >= 2
    /\ Len(lanes) >= 2

\* C2: every unique qualifying event is in the lanes at most once, and the
\* spans in the lanes plus overflow are as many as the unique qualifying
\* events, also when an event is attached to several days of the row.
C2_Conservation ==
    Packed =>
        /\ SumLens(lanes) + overflow = Cardinality(QualifyingKeys)
        /\ Cardinality({ KeyOf(s.event) : s \in PlacedSpans }) = SumLens(lanes)
        /\ { KeyOf(s.event) : s \in PlacedSpans } \subseteq QualifyingKeys

C2_Witness ==
    /\ Packed
    /\ overflow > 0
    /\ \E s \in PlacedSpans :
         Cardinality({ d \in RowDays \cap DOMAIN events_by_day :
             \E i \in 1..Len(events_by_day[d].events) :
                 events_by_day[d].events[i] = s.event }) >= 2

\* C3: an all-day event of exactly one day, and any event that is not
\* all-day, is in no lane, is no dropped span and has no key in the key set.
NeverSpan(e) == ~e.all_day \/ LastDay(e) = FirstDay(e)

C3_NonSpansStayOut ==
    Packed =>
        \A e \in RowEvents :
            NeverSpan(e) =>
                /\ KeyOf(e) \notin span_keys
                /\ \A s \in AllSpans \cup PlacedSpans : KeyOf(s.event) # KeyOf(e)

C3_Witness ==
    /\ Packed
    /\ \E e \in RowEvents : e.all_day /\ LastDay(e) = FirstDay(e)
    /\ \E e \in RowEvents : ~e.all_day
    /\ PlacedSpans # {}
    /\ overflow > 0

\* C4: never more lanes than max_lanes; with max_lanes = 0 no lane at all
\* and every unique qualifying event in overflow.
C4_LaneCapacity ==
    Packed =>
        /\ Len(lanes) <= max_lanes
        /\ (max_lanes = 0 =>
              lanes = <<>> /\ overflow = Cardinality(QualifyingKeys))

C4_Witness ==
    /\ Packed
    /\ max_lanes = 0
    /\ Cardinality(QualifyingKeys) >= 2
    /\ overflow >= 2

\* The largest number of qualifying events covering one day of the row.
CoverDepth ==
    LET cover(d) == Cardinality({ k \in QualifyingKeys :
                        \E e \in RowEvents :
                            /\ KeyOf(e) = k
                            /\ FirstDay(e) <= d
                            /\ d <= LastDay(e) })
    IN  IF RowDays = {} THEN 0
        ELSE CHOOSE n \in { cover(d) : d \in RowDays } :
                 \A d \in RowDays : cover(d) <= n

\* An assignment of the packer's spans to n lanes without overlap in a lane.
FitsIn(n) ==
    \E f \in [1..Len(spans) -> 1..n] :
        \A i \in 1..Len(spans) : \A j \in 1..Len(spans) :
            (i # j /\ f[i] = f[j]) => Disjoint(spans[i], spans[j])

\* C5: the number of lanes is min(max_lanes, D), D the largest number of
\* qualifying spans covering one day; with no overflow, no overlap-free
\* assignment of the spans to fewer lanes exists.
C5_Minimality ==
    Packed =>
        /\ Len(lanes) = Min(max_lanes, CoverDepth)
        /\ ((overflow = 0 /\ Len(lanes) >= 1) => ~FitsIn(Len(lanes) - 1))

C5_Witness ==
    /\ Packed
    /\ overflow = 0
    /\ Len(lanes) = 2
    /\ max_lanes = 3
    /\ Len(spans) >= 3

\* C6: every span's indices are inside the row and are the positions of
\* max(start date, first day) and min(end date - 1, last day); one all-day
\* event covering 3 days of a 7-day row gives 1 lane with 1 span on those
\* positions and no overflow.
C6_SpanIndices ==
    Packed =>
        /\ \A s \in AllSpans \cup PlacedSpans :
             /\ 0 <= s.start_idx
             /\ s.start_idx <= s.end_idx
             /\ s.end_idx <= Len(row_dates) - 1
             /\ row_dates[s.start_idx + 1] = Max(FirstDay(s.event), RowFirst)
             /\ row_dates[s.end_idx + 1] = Min(LastDay(s.event), RowLast)
        /\ \A e \in RowEvents :
             ( /\ Len(row_dates) = 7
               /\ QualifyingKeys = {KeyOf(e)}
               /\ Cardinality({ d \in RowDays : FirstDay(e) <= d /\ d <= LastDay(e) }) = 3
               /\ max_lanes = 3 )
             => /\ Len(lanes) = 1
                /\ Len(lanes[1]) = 1
                /\ overflow = 0
                /\ lanes[1][1].event = e
                /\ \A i \in 1..Len(row_dates) :
                     (FirstDay(e) <= row_dates[i] /\ row_dates[i] <= LastDay(e))
                        <=> (lanes[1][1].start_idx <= i - 1 /\ i - 1 <= lanes[1][1].end_idx)

C6_Witness ==
    /\ Packed
    /\ Len(row_dates) = 7
    /\ max_lanes = 3
    /\ Cardinality(QualifyingKeys) = 1
    /\ Len(lanes) = 1
    /\ lanes[1][1].end_idx - lanes[1][1].start_idx = 2
    /\ FirstDay(lanes[1][1].event) < RowFirst

\* A second witness of C6's clipping: a span cut at the end of the row.
C6_ClippedAtEnd ==
    /\ Packed
    /\ \E s \in PlacedSpans : LastDay(s.event) > RowLast /\ s.end_idx = Len(row_dates) - 1

\* (start index, width, title) of a is at most that of b.
KeyLeq(a, b) ==
    \/ a.start_idx < b.start_idx
    \/ /\ a.start_idx = b.start_idx
       /\ (a.end_idx - a.start_idx) < (b.end_idx - b.start_idx)
    \/ /\ a.start_idx = b.start_idx
       /\ (a.end_idx - a.start_idx) = (b.end_idx - b.start_idx)
       /\ TitleRank(a.event.title) <= TitleRank(b.event.title)

Pos(s) == CHOOSE i \in 1..Len(spans) : spans[i] = s

\* Lane j holds a span that overlaps s and was processed before it.
BlockedIn(j, s) ==
    /\ j <= Len(lanes)
    /\ \E o \in LaneSpans(j) : ~Disjoint(s, o) /\ Pos(o) < Pos(s)

\* C7: the spans are processed in (start index, width, title) order; a span
\* in lane k is blocked in every lane before k by an overlapping earlier
\* span, and a dropped span is blocked so in each of the max_lanes lanes.
C7_FirstFitByPriority ==
    Packed =>
        /\ \A i \in 1..Len(spans) : \A j \in 1..Len(spans) :
             i < j => KeyLeq(spans[i], spans[j])
        /\ PlacedSpans \subseteq AllSpans
        /\ Cardinality(DroppedSpans) = overflow
        /\ \A k \in 1..Len(lanes) : \A s \in LaneSpans(k) :
             \A j \in 1..(k - 1) : BlockedIn(j, s)
        /\ \A s \in DroppedSpans : \A j \in 1..max_lanes : BlockedIn(j, s)

\* Two spans starting on the same day compete: the narrower one has the
\* last lane, the wider one is dropped.
C7_Witness ==
    /\ Packed
    /\ max_lanes >= 2
    /\ \E d \in DroppedSpans : \E s \in PlacedSpans :
         /\ s.start_idx = d.start_idx
         /\ s.end_idx < d.end_idx
         /\ s \in LaneSpans(max_lanes)

\* Every qualifying event of the row covers day d.
AllCover(d) ==
    \A k \in QualifyingKeys :
        \E e \in RowEvents : KeyOf(e) = k /\ FirstDay(e) <= d /\ d <= LastDay(e)

\* C8: when the row's k qualifying events all cover one same day,
\* min(k, max_lanes) of them are placed, one per lane, and overflow counts
\* the other k - min(k, max_lanes).
C8_PairwiseOverlapping ==
    (Packed /\ \E d \in RowDays : AllCover(d)) =>
        LET k == Cardinality(QualifyingKeys)
        IN  /\ SumLens(lanes) = Min(k, max_lanes)
            /\ Len(lanes) = Min(k, max_lanes)
            /\ \A j \in 1..Len(lanes) : Len(lanes[j]) = 1
            /\ overflow = k - Min(k, max_lanes)

\* max_lanes = 1 and two events covering every day of the row.
C8_Witness ==
    /\ Packed
    /\ max_lanes = 1
    /\ Cardinality(QualifyingKeys) = 2
    /\ \A d \in RowDays : AllCover(d)
    /\ SumLens(lanes) = 1
    /\ overflow = 1

\* The events the day placers of the row loop over.
CellEvents ==
    UNION { { cells[d][i] : i \in 1..Len(cells[d]) } : d \in DOMAIN cells }

\* C9: no day placer of a drawn row handles an event whose key is in the
\* key set the packer returned for the row; an event drawn as a lane bar is
\* drawn as one bar only and in no day cell.
C9_SpanExclusion ==
    RowDrawn =>
        /\ \A e \in CellEvents : KeyOf(e) \notin span_keys
        /\ QualifyingKeys \subseteq span_keys
        /\ \A b \in bars :
             /\ \A e \in CellEvents : KeyOf(e) # KeyOf(b.event)
             /\ \A c \in bars : KeyOf(c.event) = KeyOf(b.event) => c = b

\* A day of the row holds a span event and an event of its own; the first
\* has a bar, the second is in the cell.
C9_Witness ==
    /\ RowDrawn
    /\ \E d \in RowDays \cap DOMAIN events_by_day :
         /\ \E i \in 1..Len(events_by_day[d].events) :
              \E b \in bars : b.event = events_by_day[d].events[i]
         /\ Len(cells[d]) >= 1
         /\ Len(cells[d]) < Len(events_by_day[d].events)

\* C10: a drawn row whose packer call returned overflow > 0 shows that
\* count.  The row drawers never read the count, so this fails.
C10_LaneOverflowShown ==
    (RowDrawn /\ overflow > 0) => lane_more = overflow

----------------------------------------------------------------------------
(* Properties of the day placers, stated on the blocks a direct call has   *)
(* drawn, with the claims' own words for top, bottom and time-based top.   *)

\* A day placer has been called; the week / four-day placer has.
InPlacer == pc \in {"placing", "placed"}
ByTime == InPlacer /\ view \in {"week", "four_day"}

\* The event of a block, and the sizes the call has chosen.
EventOf(b) == ShownEvents[b.event]
MinBlockHeight == MinBarHeight(view, Len(ShownEvents))
TextLineHeight == LineHeight(view, Len(ShownEvents))
BlockBottom(b) == b.top + b.height
Apart(b, c) == BlockBottom(b) <= c.top \/ BlockBottom(c) <= b.top

\* region_top + trunc((clamp(start hour, 6, 22) - 6) * region_height / 16),
\* region_top for an all-day event (heights here are not negative once a
\* block is drawn).
TimeBasedTop(e) ==
    IF e.all_day THEN region.y
    ELSE LET h == e.start % 24
             c == IF h < 6 THEN 6 ELSE IF h > 22 THEN 22 ELSE h
         IN  region.y + ((c - 6) * region.height) \div 16

\* C11: any two blocks the week / four-day placer has drawn for a day have
\* disjoint vertical ranges (in whichever order they lie; that each block
\* ends above the block drawn after it is the stronger reading).  Fails: a
\* block is tested once against each earlier block, in drawing order, and a
\* move below one of them can land on another.
C11_BlocksDisjoint ==
    ByTime =>
        \A i \in 1..Len(blocks) : \A j \in 1..Len(blocks) :
            i # j => Apart(blocks[i], blocks[j])

\* C12: every drawn block, timed or all-day, is at least min_block_height
\* high or ends exactly at the bottom of the region.  Fails for an all-day
\* block in a region lower than three minimum heights.
C12_MinimumHeight ==
    InPlacer =>
        \A i \in 1..Len(blocks) :
            \/ blocks[i].height >= MinBlockHeight
            \/ BlockBottom(blocks[i]) = Bottom

\* C13: every drawn block lies inside the region; a block that passed the
\* bottom has been shrunk to end exactly at the bottom; an event is given up
\* only when a block of min_block_height at its position passes the bottom.
C13_Containment ==
    InPlacer =>
        /\ \A i \in 1..Len(blocks) :
             /\ region.y <= blocks[i].top
             /\ BlockBottom(blocks[i]) <= Bottom
             /\ blocks[i].shrunk => BlockBottom(blocks[i]) = Bottom
        /\ \A i \in 1..Len(skipped) : skipped[i].top + MinBlockHeight > Bottom

\* A block shrunk to the bottom and, after it, an event given up.
C13_Witness ==
    /\ ByTime
    /\ \E i \in 1..Len(blocks) :
         /\ blocks[i].shrunk
         /\ BlockBottom(blocks[i]) = Bottom
         /\ blocks[i].height >= MinBlockHeight
    /\ \E i \in 1..Len(skipped) : \E j \in 1..Len(blocks) :
         skipped[i].event > blocks[j].event

\* The cursor after the first i drawn blocks.
CursorAfter(i) ==
    IF i = 0 THEN region.y ELSE BlockBottom(blocks[i]) + 2

\* Every timed event of the day's list starts on the day of the cell.
StartedToday ==
    \A i \in 1..Len(day_events) :
        day_events[i].all_day \/ day_events[i].start \div 24 = PlacerDay

\* C14 as stated: each drawn block's top is max(time-based top, cursor) with
\* cursor = top + height + 2 of the block drawn before it, so that two
\* blocks drawn one after the other are at least 2 px apart.  Fails: a block
\* that overlaps nothing stays at its time-based top, also when that is less
\* than 2 px below the block before it.  It is stated here for the lists
\* whose timed events all start on the day, which the misplaced blocks of
\* C17 play no part in.
C14_CursorSequencing ==
    (ByTime /\ StartedToday) =>
        /\ \A i \in 1..Len(blocks) :
             blocks[i].top = Max(TimeBasedTop(EventOf(blocks[i])), CursorAfter(i - 1))
        /\ \A i \in 1..(Len(blocks) - 1) :
             blocks[i + 1].top >= BlockBottom(blocks[i]) + 2

\* C14 amended: events are handled in list order; a drawn block's top is its
\* time-based top or, when it was moved, the bottom of an earlier drawn block
\* plus 2 px, and never above its time-based top; it does not overlap the
\* block drawn just before it.
C14_MovedBelowEarlierBlock ==
    ByTime =>
        \A i \in 1..Len(blocks) :
            /\ i > 1 => blocks[i - 1].event < blocks[i].event
            /\ blocks[i].top >= TimeBasedTop(EventOf(blocks[i]))
            /\ \/ blocks[i].top = TimeBasedTop(EventOf(blocks[i]))
               \/ \E j \in 1..(i - 1) : blocks[i].top = BlockBottom(blocks[j]) + 2
            /\ i > 1 => Apart(blocks[i - 1], blocks[i])

\* One block moved below the block before it, another left at its time-based
\* top less than 2 px below the block before it.
C14_Witness ==
    /\ ByTime
    /\ \E i \in 2..Len(blocks) :
         /\ blocks[i].top > TimeBasedTop(EventOf(blocks[i]))
         /\ blocks[i].top = BlockBottom(blocks[i - 1]) + 2
    /\ \E i \in 2..Len(blocks) :
         /\ blocks[i].top = TimeBasedTop(EventOf(blocks[i]))
         /\ blocks[i].top >= BlockBottom(blocks[i - 1])
         /\ blocks[i].top < BlockBottom(blocks[i - 1]) + 2

\* C15: when a day placer returns, every non-span event of the day is drawn
\* as a block or counted in the "+N more" number on the canvas.  Fails: the
\* week / four-day placer counts nothing, the two-week placer counts only
\* the events beyond max_events and shows the number only if there is room.
C15_OverflowAccounting ==
    pc = "placed" =>
        Len(blocks) + more_shown = Len(FilteredEvents(day_events, span_keys))

\* Two blocks of timed events with the same start timestamp.
SameStart(b, c) ==
    /\ ~EventOf(b).all_day
    /\ ~EventOf(c).all_day
    /\ EventOf(b).start = EventOf(c).start

\* C16: timed events with the same start are stacked by the week / four-day
\* placer in list order, each block's top 2 px below the bottom of the one
\* drawn before it, no two of them overlapping; once one of them is given
\* up, no later one of them is drawn.  The last part fails when a block
\* drawn low in the region (an event that started on an earlier day, see
\* C17) pushes a long one of them past the bottom and a short one fits.
C16_SameStartStacking ==
    ByTime =>
        /\ \A i \in 1..(Len(blocks) - 1) :
             SameStart(blocks[i], blocks[i + 1]) =>
                 blocks[i + 1].top = BlockBottom(blocks[i]) + 2
        /\ \A i \in 1..Len(blocks) : \A j \in 1..Len(blocks) :
             (i < j /\ SameStart(blocks[i], blocks[j])) =>
                 BlockBottom(blocks[i]) <= blocks[j].top
        /\ \A i \in 1..Len(skipped) : \A j \in 1..Len(blocks) :
             SameStart(skipped[i], blocks[j]) => blocks[j].event < skipped[i].event

\* C17: of two blocks the week / four-day placer has drawn for a day, the
\* one of the event that comes earlier in the list is not below the other.
\* Fails: a timed event that started on an earlier day is placed by the hour
\* it started at, below the events of the day that follow it in the list.
C17_EarlierHigher ==
    ByTime =>
        \A i \in 1..Len(blocks) : \A j \in 1..Len(blocks) :
            blocks[i].event < blocks[j].event => blocks[i].top <= blocks[j].top

\* C18: in the week / four-day placer every drawn all-day block is at most
\* min(region_height // 3, 3 * min_block_height) high, and the first all-day
\* block of the day is at the top of the region.
C18_AllDayAnchoredCapped ==
    ByTime =>
        \A i \in 1..Len(blocks) :
            EventOf(blocks[i]).all_day =>
                /\ blocks[i].height <= Min(region.height \div 3, 3 * MinBlockHeight)
                /\ (\A j \in 1..(i - 1) : ~EventOf(blocks[j]).all_day) =>
                       blocks[i].top = region.y

\* Two all-day blocks, the first at the top of the region and cut to the
\* cap, which is a third of the region here.
C18_Witness ==
    /\ ByTime
    /\ region.height \div 3 < 3 * MinBlockHeight
    /\ Len(blocks) >= 2
    /\ EventOf(blocks[1]).all_day
    /\ EventOf(blocks[2]).all_day
    /\ blocks[1].top = region.y
    /\ blocks[1].height = region.height \div 3
    /\ blocks[2].top > region.y

\* C19 as stated: in every day placer a drawn block is
\* max(min_block_height, lines_used * line_height + 4) high.  Fails for the
\* timed blocks of the week / four-day placer, whose height comes from the
\* duration.
C19_HeightFitsText ==
    InPlacer =>
        \A i \in 1..Len(blocks) :
            /\ blocks[i].height =
                   Max(MinBlockHeight, blocks[i].lines * TextLineHeight + 4)
            /\ blocks[i].lines <= 6

\* The largest number of lines for a height.
LinesFor(h) == Max(1, Min(6, (h - 4) \div TextLineHeight))

\* Hours of an event times region_height / 16, truncated.
DurationHeight(e) == ((e.end - e.start) * region.height) \div 16

\* C19 amended: in the two-week placer a drawn block is
\* max(min_block_height, lines_used * line_height + 4) high, with lines_used
\* at most max(1, min(6, (remaining height - 4) // line_height)).  In the
\* week / four-day placer the text is fitted to the bar: a timed block is
\* max(min_block_height, trunc(hours * region_height / 16)) high and an
\* all-day block min(cap, max(min_block_height, lines_used * line_height
\* + 4)) with cap = min(region_height // 3, 3 * min_block_height), unless
\* the block was shrunk to end at the bottom; lines_used is at most
\* max(1, min(6, (h - 4) // line_height)) for h that duration height or cap.
C19_TextFit ==
    InPlacer =>
        \A i \in 1..Len(blocks) :
            LET b == blocks[i]
                e == EventOf(b)
                grown == Max(MinBlockHeight, b.lines * TextLineHeight + 4)
                cap == Min(region.height \div 3, 3 * MinBlockHeight)
                h == IF e.all_day THEN cap
                     ELSE Max(MinBlockHeight, DurationHeight(e))
            IN  IF view = "two_week"
                THEN /\ b.height = grown
                     /\ b.lines <= LinesFor(Bottom - b.top)
                ELSE /\ b.lines <= LinesFor(h)
                     /\ \/ b.shrunk /\ BlockBottom(b) = Bottom
                        \/ b.height = (IF e.all_day THEN Min(cap, grown) ELSE h)

\* An all-day block grown to its lines of text and a timed block higher
\* than its text, from its duration, with the six lines of the cap.
C19_Witness ==
    /\ ByTime
    /\ \E i \in 1..Len(blocks) :
         /\ EventOf(blocks[i]).all_day
         /\ blocks[i].lines >= 3
         /\ blocks[i].height = blocks[i].lines * TextLineHeight + 4
         /\ blocks[i].height > MinBlockHeight
    /\ \E i \in 1..Len(blocks) :
         /\ ~EventOf(blocks[i]).all_day
         /\ ~blocks[i].shrunk
         /\ blocks[i].lines = 6
         /\ blocks[i].height > 6 * TextLineHeight + 4

\* C20: no call of the lane packer or of a day placer raises.  Fails: the
\* lane packer reads dates[0] of an empty row and looks up, with
\* dates.index, a clipped day that a row with a gap does not hold.
C20_NeverRaises == raised = "none"


----------------------------------------------------------------------------
(* Properties of calendar_data.py, on the direct calls.                    *)

DictBuilt == pc \in {"dict_built", "limited"}

\* The event is in the list of the day in the mapping.
ListedOn(by_day, e, d) ==
    /\ d \in DOMAIN by_day
    /\ \E i \in 1..Len(by_day[d].events) : by_day[d].events[i] = e

\* The last day an event runs on: the day of its last hour.
LastDayOf(e) == IF e.end > e.start THEN Date(e.end - 1) ELSE Date(e.start)

\* C21: every event is listed under every day of [start_date, end_date) it
\* runs on, its start date first of all, a timed event that starts and ends
\* on the same day included.  Fails: the loop runs while current_date <
\* event.end.date(), so a timed event is never listed under the date it
\* ends on, and one that ends on the day it starts is listed nowhere.
C21_ListedOnEveryDay ==
    DictBuilt =>
        \A i \in 1..Len(arg_events) :
            \A d \in arg_start_date..(arg_end_date - 1) :
                (Date(arg_events[i].start) <= d /\ d <= LastDayOf(arg_events[i]))
                    => ListedOn(day_events_dict, arg_events[i], d)

Limited == pc = "limited"

\* C27: limit_events_per_day gives every day of its input a list that is
\* the first max_events entries of the day's input list, in their order and
\* never longer than max_events, and an overflow_count of
\* max(0, input length - max_events), so that kept + overflow_count = input
\* length.
C27_LimitKeepsFirst ==
    Limited =>
        /\ DOMAIN limited_events = DOMAIN day_events_dict
        /\ \A d \in DOMAIN day_events_dict :
             LET input == day_events_dict[d].events
                 kept == limited_events[d].events
             IN  /\ Len(kept) = Min(Len(input), arg_max_events)
                 /\ Len(kept) <= arg_max_events
                 /\ \A i \in 1..Len(kept) : kept[i] = input[i]
                 /\ limited_events[d].overflow_count =
                        Max(0, Len(input) - arg_max_events)
                 /\ Len(kept) + limited_events[d].overflow_count = Len(input)

\* A call that cuts one day's list of distinct events and leaves another
\* day's list whole.
C27_Witness ==
    /\ Limited
    /\ arg_max_events = 3
    /\ \E d \in DOMAIN day_events_dict :
         /\ Len(day_events_dict[d].events) > 4
         /\ limited_events[d].overflow_count > 1
         /\ limited_events[d].events[3] # day_events_dict[d].events[Len(day_events_dict[d].events)]
    /\ \E d \in DOMAIN day_events_dict :
         /\ Len(day_events_dict[d].events) = 2
         /\ limited_events[d].events = day_events_dict[d].events

\* C28: in every day's list built by group_events_by_day the all-day events
\* come before the timed events, and within the all-day events and within
\* the timed events the start timestamps ascend.
C28_DayListOrder ==
    DictBuilt =>
        \A d \in DOMAIN day_events_dict :
            LET l == day_events_dict[d].events
            IN  \A i \in 1..Len(l) : \A j \in 1..Len(l) :
                    i < j =>
                        /\ l[j].all_day => l[i].all_day
                        /\ l[i].all_day = l[j].all_day => l[i].start <= l[j].start

\* A day's list with two all-day events and two timed events of different
\* starts, one of the timed events starting before one of the all-day ones.
C28_Witness ==
    /\ DictBuilt
    /\ \E d \in DOMAIN day_events_dict :
         LET l == day_events_dict[d].events
         IN  \E i, j, m, n \in 1..Len(l) :
                /\ i < j /\ j < m /\ m < n
                /\ l[i].all_day /\ l[j].all_day
                /\ ~l[m].all_day /\ ~l[n].all_day
                /\ l[i].start < l[j].start
                /\ l[m].start < l[j].start
                /\ l[m].start < l[n].start

----------------------------------------------------------------------------
(* Properties of ha_client.py.                                             *)

Fetched == pc = "fetched" /\ futures # <<>>

\* The call for that calendar failed: _retry_request raised.
FetchFailed(c) == futures[c].raised

\* C22: the mapping get_all_calendar_events returns has one entry for every
\* configured entity id; a calendar whose fetch failed maps to the empty
\* list and every other calendar to the events its own fetch returned.
C22_FetchIsolation ==
    pc = "fetched" =>
        /\ DOMAIN all_events = { calendars[i] : i \in 1..Len(calendars) }
        /\ \A c \in DOMAIN all_events :
             all_events[c] = IF FetchFailed(c) THEN <<>> ELSE HubAnswer(c)

\* Nine calendars fetched, one of them failed, another at its third attempt.
C22_Witness ==
    /\ pc = "fetched"
    /\ Len(calendars) = 9
    /\ \E c, e \in DOMAIN all_events :
         /\ FetchFailed(c)
         /\ all_events[c] = <<>>
         /\ futures[e].outcomes = <<"failed", "failed", "ok">>
         /\ all_events[e] = HubAnswer(e)

\* C23: at every moment at most min(8, number of configured calendars)
\* get_calendar_events calls are in flight.
C23_BoundedConcurrency ==
    Cardinality(InFlight) <= Min(8, Len(calendars))

\* Nine calendars: eight calls in flight, one of them asleep between two
\* attempts, and the ninth waiting in the queue.
C23_Witness ==
    /\ Len(calendars) = 9
    /\ Cardinality(InFlight) = 8
    /\ \E c \in InFlight : futures[c].status = "sleeping"
    /\ \E c \in DOMAIN futures : futures[c].status = "queued"

\* The number of failed attempts of a call so far.
FailedAttempts(c) ==
    Cardinality({ i \in 1..Len(futures[c].outcomes) : futures[c].outcomes[i] = "failed" })

\* C24: _retry_request makes at most 3 attempts and none after a successful
\* one; it has waited 1 s after the first failed attempt and 2 s after the
\* second, and after the third failed attempt it raises without a wait.
C24_RetryPolicy ==
    \A c \in DOMAIN futures :
        LET f == futures[c]
        IN  /\ Len(f.outcomes) <= 3
            /\ \A i \in 1..(Len(f.outcomes) - 1) : f.outcomes[i] = "failed"
            /\ f.waits = SubSeq(<<1, 2>>, 1, Min(FailedAttempts(c), 2))
            /\ f.raised <=> FailedAttempts(c) = 3
            /\ f.status = "sleeping" => FailedAttempts(c) \in {1, 2}
            /\ (f.outcomes # <<>> /\ f.outcomes[Len(f.outcomes)] = "ok")
                   => f.status \in {"done", "collected"} /\ f.result = HubAnswer(c)

\* One request has failed three times and raised, another was answered at
\* its second attempt.
C24_Witness ==
    \E c, e \in DOMAIN futures :
        /\ futures[c].outcomes = <<"failed", "failed", "failed">>
        /\ futures[c].waits = <<1, 2>>
        /\ futures[c].raised
        /\ futures[e].outcomes = <<"failed", "ok">>
        /\ futures[e].waits = <<1>>

----------------------------------------------------------------------------
(* The two-week "+N more" line.                                            *)

\* The day's events that are not lane spans, those cut by
\* limit_events_per_day before the call included.
NonSpanEvents == FilteredEvents(day_events \o cut_by_limit, span_keys)

\* C26: when the two-week placer returns, the number on its "+N more" line
\* is the number of the day's non-span events it has not drawn as blocks,
\* and the line is there whenever that number is above 0, also for a list
\* limit_events_per_day has cut before.  Fails: the number is
\* len(filtered_events) - max_events of the list as handed over, so events
\* the loop broke on and events cut before the call are not counted, and
\* the line is left out when less than 15 px remain.  Stated for regions
\* of 100 px and more, the heights of the cells of a display.
C26_MoreCountsUndrawn ==
    (pc = "placed" /\ view = "two_week" /\ region.height >= 100) =>
        more_shown = Len(NonSpanEvents) - Len(blocks)

----------------------------------------------------------------------------
(* The lane strip of a drawn row.                                          *)

\* y of the row drawn last.
DrawnRowTop == RowTop(view, IF view = "two_week" /\ pc = "drawn" THEN 2 ELSE 1)

\* C29: in a drawn row with lanes, the strip of the lane bars, from
\* all_day_top to all_day_top + lane_height * number of lanes, lies between
\* the bottom of the day header and the top of the region handed to the day
\* placer, and so does every bar drawn.  Fails in the four-day view: its
\* header is 50 px high and its strip starts at y + 60, while the region
\* starts at y + 50 + the height of the lanes.
C29_LaneStripClear ==
    (RowDrawn /\ lanes # <<>>) =>
        LET y == DrawnRowTop
            all_day_top == AllDayTop(view, y)
            all_day_height == LaneHeight * Len(lanes)
        IN  /\ y + HeaderHeight(view) <= all_day_top
            /\ all_day_top + all_day_height <= RegionTop(view, y, all_day_height)
            /\ \A b \in bars :
                 /\ y + HeaderHeight(view) <= LaneY(all_day_top, b.lane)
                 /\ LaneBarBottom(all_day_top, b.lane) <= RegionTop(view, y, all_day_height)

\* The same for the week and two-week views, where it holds.
C29_WeekRowsClear == view # "four_day" => C29_LaneStripClear

----------------------------------------------------------------------------
(* Properties of the display lock and of POST /refresh.                    *)

\* C25: no two of the started processes are initialising or writing the
\* display at the same time, and a main.py that could not take the lock has
\* ended with status 0 and has not touched the display.  The first part
\* fails: show_pic.py takes no lock.
C25_DisplayLock ==
    /\ \A p \in Starters : \A q \in Starters :
         (p # q /\ Touching(p)) => ~Touching(q)
    /\ \A p \in Starters :
         (procs[p].script = "main.py" /\ procs[p].refused)
             => /\ procs[p].at = "exited"
                /\ procs[p].returncode = 0
                /\ ~procs[p].touched

\* What does hold: the main.py runs exclude one another, and a run without
\* the lock ends with status 0 and an untouched display.
C25_MainRunsExcluded ==
    /\ \A p \in Starters : \A q \in Starters :
         (p # q /\ Touching(p) /\ Touching(q)) =>
             "show_pic.py" \in {procs[p].script, procs[q].script}
    /\ \A p \in Starters :
         (Touching(p) /\ procs[p].script = "main.py") => lock_holder = p

\* C30: POST /refresh answers 200 only if its main.py run has updated the
\* display and saved the state, and 500 otherwise.  Fails: a run that finds
\* the lock taken exits with status 0 and the handler answers 200.
C30_RefreshResult ==
    response # 0 =>
        (response = 200 <=> (procs["refresh"].displayed /\ procs["refresh"].saved))
============================================================================
